---- MODULE Spec2Model ----
(***************************************************************************)
(* Model of src/Manchester_cryostat_cooldown.py: the explicit-Euler        *)
(* cooldown solver of a two-stage cryostat.                                *)
(*                                                                         *)
(* The script is one while loop over module-level arrays.  Each commented  *)
(* block of the loop body is one action; the program counter pc names the  *)
(* block that runs next, so the states between two np.append calls of one  *)
(* step are states of the model.  The plotting that follows the loop       *)
(* (lines 181-218) is not modelled.                                        *)
(*                                                                         *)
(* Numbers.  Every quantity of the script is a numpy float64.  A float64   *)
(* is modelled by a record: a finite value (-1)^s * m * 2^e with m an      *)
(* unbounded natural held as a sequence of 13-bit limbs, +-infinity, or    *)
(* NaN.  +, -, *, / and **4 are computed exactly and rounded to 53         *)
(* significant bits, ties to even, as IEEE-754 binary64 does.  The         *)
(* exponent range is not modelled (no run of the model overflows or        *)
(* underflows), and -0.0 is identified with 0.0 (the script never divides  *)
(* by a zero and never prints one).                                        *)
(***************************************************************************)
EXTENDS Integers, Sequences, FiniteSets, TLC

(***************************************************************************)
(* Naturals as limb sequences, least significant limb first, no zero limb  *)
(* at the top; <<>> is zero.                                               *)
(***************************************************************************)
Base == 2 ^ 13

RECURSIVE IntBitLen(_)
IntBitLen(n) == IF n = 0 THEN 0 ELSE 1 + IntBitLen(n \div 2)

LimbBits == IntBitLen(Base) - 1

RECURSIVE LStrip(_)
LStrip(m) ==
  IF m = <<>> THEN m
  ELSE IF m[Len(m)] = 0 THEN LStrip(SubSeq(m, 1, Len(m) - 1)) ELSE m

RECURSIVE LAddC(_, _, _, _)
LAddC(a, b, i, c) ==
  IF i > Len(a) /\ i > Len(b)
  THEN IF c = 0 THEN <<>> ELSE <<c>>
  ELSE LET t == (IF i <= Len(a) THEN a[i] ELSE 0)
                + (IF i <= Len(b) THEN b[i] ELSE 0) + c
       IN  <<t % Base>> \o LAddC(a, b, i + 1, t \div Base)

LAdd(a, b) == LAddC(a, b, 1, 0)

RECURSIVE LSubB(_, _, _, _)
LSubB(a, b, i, c) ==
  IF i > Len(a) THEN <<>>
  ELSE LET t == a[i] - (IF i <= Len(b) THEN b[i] ELSE 0) - c
       IN  IF t < 0
           THEN <<t + Base>> \o LSubB(a, b, i + 1, 1)
           ELSE <<t>> \o LSubB(a, b, i + 1, 0)

\* a - b for a >= b
LSub(a, b) == LStrip(LSubB(a, b, 1, 0))

RECURSIVE LCmpFrom(_, _, _)
LCmpFrom(a, b, i) ==
  IF i = 0 THEN 0
  ELSE IF a[i] < b[i] THEN -1
  ELSE IF a[i] > b[i] THEN 1
  ELSE LCmpFrom(a, b, i - 1)

\* -1, 0, 1 as a < b, a = b, a > b
LCmp(a, b) ==
  IF Len(a) < Len(b) THEN -1
  ELSE IF Len(a) > Len(b) THEN 1
  ELSE LCmpFrom(a, b, Len(a))

RECURSIVE LMulSmallC(_, _, _, _)
LMulSmallC(a, d, i, c) ==
  IF i > Len(a)
  THEN IF c = 0 THEN <<>> ELSE <<c>>
  ELSE LET t == a[i] * d + c
       IN  <<t % Base>> \o LMulSmallC(a, d, i + 1, t \div Base)

\* a * d for a limb d < Base
LMulSmall(a, d) == IF d = 0 THEN <<>> ELSE LMulSmallC(a, d, 1, 0)

LUp(m) == IF m = <<>> THEN m ELSE <<0>> \o m

RECURSIVE LMulFrom(_, _, _)
LMulFrom(a, b, j) ==
  IF j > Len(b) THEN <<>>
  ELSE LAdd(LMulSmall(a, b[j]), LUp(LMulFrom(a, b, j + 1)))

LMul(a, b) == IF a = <<>> \/ b = <<>> THEN <<>> ELSE LMulFrom(a, b, 1)

RECURSIVE IntTrailingZeros(_)
IntTrailingZeros(n) == IF n % 2 = 1 THEN 0 ELSE 1 + IntTrailingZeros(n \div 2)

BitLen(m) ==
  IF m = <<>> THEN 0 ELSE LimbBits * (Len(m) - 1) + IntBitLen(m[Len(m)])

RECURSIVE LZeroLimbs(_, _)
LZeroLimbs(m, i) == IF m[i] # 0 THEN 0 ELSE 1 + LZeroLimbs(m, i + 1)

\* the number of zero bits below the lowest set bit of m # 0
TrailingZeros(m) ==
  LET z == LZeroLimbs(m, 1)
  IN  LimbBits * z + IntTrailingZeros(m[z + 1])

\* bit i of m, bit 0 the least significant
LBit(m, i) ==
  LET l == (i \div LimbBits) + 1
  IN  IF l > Len(m) THEN 0 ELSE (m[l] \div (2 ^ (i % LimbBits))) % 2

\* floor(m / 2^k)
LShr(m, k) ==
  LET w == k \div LimbBits
      r == k % LimbBits
      n == Len(m) - w
  IN  IF n <= 0 THEN <<>>
      ELSE LStrip([i \in 1..n |->
             (m[i + w] \div (2 ^ r))
             + (IF i + w < Len(m)
                THEN (m[i + w + 1] % (2 ^ r)) * (2 ^ (LimbBits - r))
                ELSE 0)])

\* m * 2^k
LShl(m, k) ==
  IF m = <<>> THEN m
  ELSE [i \in 1..(k \div LimbBits) |-> 0] \o LMulSmall(m, 2 ^ (k % LimbBits))

\* whether the k low bits of m are all zero
LLowZero(m, k) == m = <<>> \/ TrailingZeros(m) >= k

RECURSIVE LFromInt(_)
LFromInt(n) == IF n = 0 THEN <<>> ELSE <<n % Base>> \o LFromInt(n \div Base)

\* the largest limb q with d * q <= cur, for cur < d * Base: its bits are tried
\* from bit b down, acc holding the bits already set
RECURSIVE LDigit(_, _, _, _)
LDigit(cur, d, b, acc) ==
  IF b < 0 THEN acc
  ELSE IF LCmp(LMulSmall(d, acc + 2 ^ b), cur) <= 0
       THEN LDigit(cur, d, b - 1, acc + 2 ^ b)
       ELSE LDigit(cur, d, b - 1, acc)

\* <<quotient, remainder>> of a by d # 0, by long division in base Base: limb i
\* of a is brought down into the remainder r, from the top limb to the lowest
RECURSIVE LDivFrom(_, _, _, _)
LDivFrom(a, d, i, r) ==
  IF i = 0 THEN <<<<>>, r>>
  ELSE LET cur  == LStrip(<<a[i]>> \o r)
           q    == LDigit(cur, d, LimbBits - 1, 0)
           rest == LDivFrom(a, d, i - 1, LSub(cur, LMulSmall(d, q)))
       IN  <<rest[1] \o <<q>>, rest[2]>>

LDivMod(a, d) ==
  LET qr == LDivFrom(a, d, Len(a), <<>>)
  IN  <<LStrip(qr[1]), qr[2]>>

(***************************************************************************)
(* float64 values.                                                         *)
(***************************************************************************)
\* significant bits of a binary64
MantBits == 53

NaN == [k |-> "nan", s |-> 0, m |-> <<>>, e |-> 0]

Inf(s) == [k |-> "inf", s |-> s, m |-> <<>>, e |-> 0]

Zero == [k |-> "fin", s |-> 0, m |-> <<>>, e |-> 0]

IsNaN(x) == x.k = "nan"

IsInf(x) == x.k = "inf"

IsFinite(x) == x.k = "fin"

IsZero(x) == x.k = "fin" /\ x.m = <<>>

\* the canonical record of (-1)^s * m * 2^e: m odd, or Zero
Norm(s, m, e) ==
  IF m = <<>> THEN Zero
  ELSE LET z == TrailingZeros(m)
       IN  [k |-> "fin", s |-> s, m |-> LShr(m, z), e |-> e + z]

\* (-1)^s * m * 2^e rounded to MantBits significant bits, ties to even
Round(s, m, e) ==
  LET l == BitLen(m)
  IN  IF l <= MantBits THEN Norm(s, m, e)
      ELSE LET d    == l - MantBits
               q    == LShr(m, d)
               half == LBit(m, d - 1) = 1
               rest == ~LLowZero(m, d - 1)
               up   == half /\ (rest \/ LBit(q, 0) = 1)
           IN  Norm(s, IF up THEN LAdd(q, <<1>>) ELSE q, e + d)

\* the float64 of an integer n, |n| < 2^31
FromInt(n) == IF n < 0 THEN Norm(1, LFromInt(-n), 0) ELSE Norm(0, LFromInt(n), 0)

\* the position above the top bit of a finite x # 0: 2^(Top-1) <= |x| < 2^Top
Top(x) == x.e + BitLen(x.m)

\* -1, 0, 1 as |x| < |y|, |x| = |y|, |x| > |y|, for finite x and y
MagCmp(x, y) ==
  IF x.m = <<>> THEN (IF y.m = <<>> THEN 0 ELSE -1)
  ELSE IF y.m = <<>> THEN 1
  ELSE IF Top(x) < Top(y) THEN -1
  ELSE IF Top(x) > Top(y) THEN 1
  ELSE LET e0 == IF x.e < y.e THEN x.e ELSE y.e
       IN  LCmp(LShl(x.m, x.e - e0), LShl(y.m, y.e - e0))

FNeg(x) ==
  IF IsNaN(x) \/ IsZero(x) THEN x ELSE [x EXCEPT !.s = 1 - x.s]

\* the exact sum of finite x # 0 and y # 0, as <<s, m, e>>
SumFin(x, y) ==
  LET e0 == IF x.e < y.e THEN x.e ELSE y.e
      a  == LShl(x.m, x.e - e0)
      b  == LShl(y.m, y.e - e0)
      c  == LCmp(a, b)
  IN  IF x.s = y.s THEN <<x.s, LAdd(a, b), e0>>
      ELSE IF c >= 0 THEN <<x.s, LSub(a, b), e0>>
      ELSE <<y.s, LSub(b, a), e0>>

\* an operand below a quarter of the other's last place rounds away
FAddFin(x, y) ==
  IF x.m = <<>> THEN y
  ELSE IF y.m = <<>> THEN x
  ELSE IF Top(x) - Top(y) > MantBits + 2 THEN x
  ELSE IF Top(y) - Top(x) > MantBits + 2 THEN y
  ELSE LET t == SumFin(x, y) IN Round(t[1], t[2], t[3])

\* x + y
FAdd(x, y) ==
  IF IsNaN(x) \/ IsNaN(y) THEN NaN
  ELSE IF IsInf(x) THEN (IF IsInf(y) /\ y.s # x.s THEN NaN ELSE x)
  ELSE IF IsInf(y) THEN y
  ELSE FAddFin(x, y)

\* x - y
FSub(x, y) == FAdd(x, FNeg(y))

\* x * y
FMul(x, y) ==
  IF IsNaN(x) \/ IsNaN(y) THEN NaN
  ELSE IF IsInf(x) \/ IsInf(y)
       THEN IF IsZero(x) \/ IsZero(y) THEN NaN ELSE Inf((x.s + y.s) % 2)
  ELSE Round((x.s + y.s) % 2, LMul(x.m, y.m), x.e + y.e)

\* x / y for finite x # 0 and y # 0: the quotient to MantBits + 2 bits or more,
\* and one more low bit that is set when the division left a remainder
FDivFin(x, y) ==
  LET need == MantBits + 2 + BitLen(y.m) - BitLen(x.m)
      sh   == IF need > 0 THEN need ELSE 0
      qr   == LDivMod(LShl(x.m, sh), y.m)
      q2   == LAdd(LShl(qr[1], 1), IF qr[2] = <<>> THEN <<>> ELSE <<1>>)
  IN  Round((x.s + y.s) % 2, q2, x.e - y.e - sh - 1)

\* x / y (numpy: a finite x / 0 is +-inf and 0 / 0 is nan, with a warning)
FDiv(x, y) ==
  IF IsNaN(x) \/ IsNaN(y) THEN NaN
  ELSE IF IsInf(x) THEN (IF IsInf(y) THEN NaN ELSE Inf((x.s + y.s) % 2))
  ELSE IF IsInf(y) THEN Zero
  ELSE IF IsZero(y) THEN (IF IsZero(x) THEN NaN ELSE Inf((x.s + y.s) % 2))
  ELSE IF IsZero(x) THEN Zero
  ELSE FDivFin(x, y)

\* x ** 4
FPow4(x) ==
  IF IsNaN(x) THEN NaN
  ELSE IF IsInf(x) THEN Inf(0)
  ELSE LET m2 == LMul(x.m, x.m)
       IN  Round(0, LMul(m2, m2), 4 * x.e)

\* x < y (False when either is NaN)
FLt(x, y) ==
  IF IsNaN(x) \/ IsNaN(y) THEN FALSE
  ELSE IF IsInf(x) THEN x.s = 1 /\ ~(IsInf(y) /\ y.s = 1)
  ELSE IF IsInf(y) THEN y.s = 0
  ELSE IF x.s # y.s THEN x.s = 1 /\ ~(IsZero(x) /\ IsZero(y))
  ELSE IF x.s = 0 THEN MagCmp(x, y) < 0
  ELSE MagCmp(x, y) > 0

\* x <= y
FLe(x, y) == ~IsNaN(x) /\ ~IsNaN(y) /\ ~FLt(y, x)

RECURSIVE LPow10(_)
LPow10(k) == IF k = 0 THEN <<1>> ELSE LMulSmall(LPow10(k - 1), 10)

\* the float64 a decimal literal of the source denotes: n / 10^k, rounded once
Dec(n, k) ==
  IF k = 0 THEN FromInt(n) ELSE FDiv(FromInt(n), Norm(0, LPow10(k), 0))

(***************************************************************************)
(* The script's state.                                                     *)
(***************************************************************************)
VARIABLES
  endtime, timestep,             \* lines 33-35
  capmap,                        \* the capacity map behind the interpolants
  globaltime,                    \* line 36
  T_0, T_1, T_2,                 \* lines 50, 57, 64
  Qdot1_record, Qdot2_record,    \* lines 70-71
  QRdot1_record, QRdot2_record,  \* lines 73-74
  Cp_1, Cp_2,                    \* the loop body's names
  Q1, QR1, Q2, QR2,
  T_0_new, T_1_new, T_2_new, time_new,
  pc                             \* the block that runs next

config == <<endtime, timestep, capmap>>

history == <<globaltime, T_0, T_1, T_2,
             Qdot1_record, Qdot2_record, QRdot1_record, QRdot2_record>>

locals == <<Cp_1, Cp_2, Q1, QR1, Q2, QR2, T_0_new, T_1_new, T_2_new, time_new>>

vars == <<config, history, locals, pc>>

\* a run whose time step is not positive never ends: the model follows it for
\* this many steps
MaxSteps == 4

Last(a) == a[Len(a)]

\* a loop-body name before its first assignment
Unbound == [k |-> "unbound", s |-> 0, m |-> <<>>, e |-> 0]

\* np.append taken for an assignment to the last entry
np_append_overwrite(arr, value) == [arr EXCEPT ![Len(arr)] = value]

\* np.append(arr, value)
np_append(arr, value) == Append(arr, value)

(***************************************************************************)
(* Physical constants and element parameters.                              *)
(***************************************************************************)
stefboltz == Dec(567, 10)

A_1 == Dec(5, 1)

eps1 == Dec(1, 2)

m_1 == FromInt(12)

A_2 == Dec(5, 1)

eps2 == Dec(1, 2)

m_2 == FromInt(15)

(***************************************************************************)
(* Specific heat of copper: 10 ** P(log10 T), P the degree-7 fit of lines  *)
(* 106 and 111.  np.log10 is -inf at 0 and nan below 0, with a warning and *)
(* no exception: every term of P is then +inf (at T = 0) or nan, and so is *)
(* 10 ** P.  For T > 0 the curve is sampled: each temperature band carries *)
(* the value of the source's polynomial at the middle of the band, to the  *)
(* nearest J/(kg K).                                                       *)
(***************************************************************************)
cp(T) ==
  IF IsNaN(T) \/ IsInf(T) THEN NaN
  ELSE IF IsZero(T) THEN Inf(0)
  ELSE IF T.s = 1 THEN NaN
  ELSE IF FLt(T, FromInt(50)) THEN FromInt(15)
  ELSE IF FLt(T, FromInt(100)) THEN FromInt(188)
  ELSE IF FLt(T, FromInt(150)) THEN FromInt(294)
  ELSE IF FLt(T, FromInt(200)) THEN FromInt(340)
  ELSE IF FLt(T, FromInt(250)) THEN FromInt(367)
  ELSE IF FLt(T, FromInt(280)) THEN FromInt(380)
  ELSE IF FLt(T, FromInt(290)) THEN FromInt(383)
  ELSE FromInt(384)

(***************************************************************************)
(* The cooler's capacity map.  scipy's interp2d is a library fit of the    *)
(* sample arrays of lines 80-83; the model keeps what the solver uses of   *)
(* it, a function of (T_1, T_2) fixed before the loop.  "ptc" stands for   *)
(* the PT415 samples: the stage-1 lift is the lift of the sample isotherm  *)
(* whose coldest stage-1 temperature T_1 has reached, the stage-2 lift the *)
(* lift of the warmest isotherm's sample whose stage-2 temperature T_2 has *)
(* reached.  "zero" is the map whose samples are all 0 W.  A NaN argument  *)
(* gives NaN.                                                              *)
(***************************************************************************)
\* T_PTC1: the coldest stage-1 sample of the 250, 200, 150, 100 and 50 W isotherms
T_PTC1 == <<Dec(28661, 2), Dec(21618, 2), Dec(11432, 2), Dec(7531, 2), Dec(4985, 2)>>

\* T_PTC2: the stage-2 samples of the warmest isotherm at 75, 50 and 25 W
T_PTC2 == <<Dec(28492, 2), Dec(20447, 2), Dec(13072, 2)>>

Q_PTC1_interp_func(map, T1, T2) ==
  IF IsNaN(T1) \/ IsNaN(T2) THEN NaN
  ELSE IF map = "zero" THEN Zero
  ELSE IF FLe(T_PTC1[1], T1) THEN FromInt(250)
  ELSE IF FLe(T_PTC1[2], T1) THEN FromInt(200)
  ELSE IF FLe(T_PTC1[3], T1) THEN FromInt(150)
  ELSE IF FLe(T_PTC1[4], T1) THEN FromInt(100)
  ELSE IF FLe(T_PTC1[5], T1) THEN FromInt(50)
  ELSE Zero

Q_PTC2_interp_func(map, T1, T2) ==
  IF IsNaN(T1) \/ IsNaN(T2) THEN NaN
  ELSE IF map = "zero" THEN Zero
  ELSE IF FLe(T_PTC2[1], T2) THEN FromInt(75)
  ELSE IF FLe(T_PTC2[2], T2) THEN FromInt(50)
  ELSE IF FLe(T_PTC2[3], T2) THEN FromInt(25)
  ELSE Zero

(***************************************************************************)
(* The expressions of the loop body.                                       *)
(***************************************************************************)
\* line 132 with the fourth power of T_0[-1] left out
QRdot1_expr_nopower ==
  FMul(FMul(FMul(A_1, eps1), stefboltz), FSub(Last(T_0), FPow4(Last(T_1))))

\* line 132: A_1 * eps1 * stefboltz * ((T_0[-1] ** 4) - (T_1[-1] ** 4))
QRdot1_expr ==
  FMul(FMul(FMul(A_1, eps1), stefboltz), FSub(FPow4(Last(T_0)), FPow4(Last(T_1))))

\* line 146 reading the first entries, T_1[0] and T_2[0]
QRdot2_expr_first ==
  FMul(FMul(FMul(A_2, eps2), stefboltz), FSub(FPow4(T_1[1]), FPow4(T_2[1])))

\* line 146: A_2 * eps2 * stefboltz * ((T_1[-1] ** 4) - (T_2[-1] ** 4))
QRdot2_expr ==
  FMul(FMul(FMul(A_2, eps2), stefboltz), FSub(FPow4(Last(T_1)), FPow4(Last(T_2))))

\* line 156 reading stage 1
T_0_new_expr_stage1 == Last(T_1)

\* line 156: T_0[-1]
T_0_new_expr == Last(T_0)

\* line 162: ( T_1[-1] ) + ( ( -Q1 + QR1 -QR2 ) / Cp_1)
T_1_new_expr == FAdd(Last(T_1), FDiv(FSub(FAdd(FNeg(Q1), QR1), QR2), Cp_1))

\* line 167 adding QR2, the load the script names "on 2nd stage"
T_2_new_expr_QR2 == FAdd(Last(T_2), FDiv(FAdd(FNeg(Q2), QR2), Cp_2))

\* line 167: ( T_2[-1] ) + ((-Q2+QR1) / Cp_2)
T_2_new_expr == FAdd(Last(T_2), FDiv(FAdd(FNeg(Q2), QR1), Cp_2))

\* line 174: globaltime[-1] + timestep
time_new_expr == FAdd(Last(globaltime), timestep)

(***************************************************************************)
(* Configurations.  The script fixes its configuration in literals; the    *)
(* model runs it from each configuration below.  A configuration is the    *)
(* end time and the time step in seconds, the initial temperatures of the  *)
(* reservoir and the two stages in kelvin, and the capacity map.           *)
(***************************************************************************)
Cfg(e, dt, t0, t1, t2, map) ==
  [endtime |-> e, timestep |-> dt, T_0 |-> t0, T_1 |-> t1, T_2 |-> t2, capmap |-> map]

K300 == FromInt(300)

Configs ==
  { \* 300 K everywhere, no lift, 10 s in steps of 0.1 s
    Cfg(FromInt(10), Dec(1, 1), K300, K300, K300, "zero"),
    \* the script's temperatures and cooler, over half a second
    Cfg(Dec(5, 1), Dec(1, 1), K300, K300, K300, "ptc"),
    \* both stages start on a sample temperature of the map
    Cfg(FromInt(1), Dec(1, 1), K300, T_PTC1[1], T_PTC2[1], "ptc"),
    \* a time step that is a power of two
    Cfg(FromInt(2), Dec(5, 1), K300, K300, K300, "ptc"),
    \* time steps that are not positive
    Cfg(FromInt(1), Zero, K300, K300, K300, "zero"),
    Cfg(FromInt(1), Dec(-5, 1), K300, K300, K300, "zero"),
    \* end times that are not positive
    Cfg(Zero, Dec(1, 1), K300, K300, K300, "ptc"),
    Cfg(FromInt(-1), Dec(1, 1), K300, K300, K300, "ptc"),
    \* stage temperatures that are not positive
    Cfg(Dec(5, 1), Dec(1, 1), K300, Zero, K300, "ptc"),
    Cfg(Dec(5, 1), Dec(1, 1), K300, K300, FromInt(-5), "ptc") }

Init ==
  \E c \in Configs :
    /\ endtime = c.endtime
    /\ timestep = c.timestep
    /\ capmap = c.capmap
    /\ globaltime = <<Zero>>
    /\ T_0 = <<c.T_0>>
    /\ T_1 = <<c.T_1>>
    /\ T_2 = <<c.T_2>>
    /\ Qdot1_record = <<Zero>>
    /\ Qdot2_record = <<Zero>>
    /\ QRdot1_record = <<Zero>>
    /\ QRdot2_record = <<Zero>>
    /\ Cp_1 = Unbound /\ Cp_2 = Unbound
    /\ Q1 = Unbound /\ QR1 = Unbound /\ Q2 = Unbound /\ QR2 = Unbound
    /\ T_0_new = Unbound /\ T_1_new = Unbound /\ T_2_new = Unbound
    /\ time_new = Unbound
    /\ pc = "while"

(***************************************************************************)
(* The solver, one action per block of the loop.                           *)
(***************************************************************************)
\* line 94: while globaltime[-1] < endtime
While ==
  /\ pc = "while"
  /\ IF FLt(Last(globaltime), endtime)
     THEN /\ FLt(Zero, timestep) \/ Len(globaltime) - 1 < MaxSteps
          /\ pc' = "properties"
     ELSE pc' = "Done"
  /\ UNCHANGED <<config, history, locals>>

\* lines 106-112: temperature dependent properties
Properties ==
  /\ pc = "properties"
  /\ Cp_1' = FMul(cp(Last(T_1)), m_1)
  /\ Cp_2' = FMul(cp(Last(T_2)), m_2)
  /\ pc' = "ptc1"
  /\ UNCHANGED <<config, history, Q1, QR1, Q2, QR2,
                 T_0_new, T_1_new, T_2_new, time_new>>

\* lines 126-128: PTC heat lift, element 1
PTCLift1 ==
  /\ pc = "ptc1"
  /\ LET Qdot1 == Q_PTC1_interp_func(capmap, Last(T_1), Last(T_2))
     IN  /\ Q1' = FMul(Qdot1, timestep)
         /\ Qdot1_record' = np_append(Qdot1_record, Qdot1)
  /\ pc' = "rad1"
  /\ UNCHANGED <<config, globaltime, T_0, T_1, T_2,
                 Qdot2_record, QRdot1_record, QRdot2_record,
                 Cp_1, Cp_2, QR1, Q2, QR2, T_0_new, T_1_new, T_2_new, time_new>>

\* lines 132-134: radiative load, element 1
RadLoad1 ==
  /\ pc = "rad1"
  /\ LET QRdot1 == QRdot1_expr
     IN  /\ QR1' = FMul(QRdot1, timestep)
         /\ QRdot1_record' = np_append(QRdot1_record, QRdot1)
  /\ pc' = "ptc2"
  /\ UNCHANGED <<config, globaltime, T_0, T_1, T_2,
                 Qdot1_record, Qdot2_record, QRdot2_record,
                 Cp_1, Cp_2, Q1, Q2, QR2, T_0_new, T_1_new, T_2_new, time_new>>

\* lines 140-142: PTC heat lift, element 2
PTCLift2 ==
  /\ pc = "ptc2"
  /\ LET Qdot2 == Q_PTC2_interp_func(capmap, Last(T_1), Last(T_2))
     IN  /\ Q2' = FMul(Qdot2, timestep)
         /\ Qdot2_record' = np_append(Qdot2_record, Qdot2)
  /\ pc' = "rad2"
  /\ UNCHANGED <<config, globaltime, T_0, T_1, T_2,
                 Qdot1_record, QRdot1_record, QRdot2_record,
                 Cp_1, Cp_2, Q1, QR1, QR2, T_0_new, T_1_new, T_2_new, time_new>>

\* lines 146-148: radiative load, element 2
RadLoad2 ==
  /\ pc = "rad2"
  /\ LET QRdot2 == QRdot2_expr
     IN  /\ QR2' = FMul(QRdot2, timestep)
         /\ QRdot2_record' = np_append(QRdot2_record, QRdot2)
  /\ pc' = "element0"
  /\ UNCHANGED <<config, globaltime, T_0, T_1, T_2,
                 Qdot1_record, Qdot2_record, QRdot1_record,
                 Cp_1, Cp_2, Q1, QR1, Q2, T_0_new, T_1_new, T_2_new, time_new>>

\* lines 156-157 without the append of line 157
Element0_noappend ==
  /\ pc = "element0"
  /\ T_0_new' = T_0_new_expr
  /\ pc' = "element1"
  /\ UNCHANGED <<config, history,
                 Cp_1, Cp_2, Q1, QR1, Q2, QR2, T_1_new, T_2_new, time_new>>

\* lines 156-157: element 0, the reservoir
Element0 ==
  /\ pc = "element0"
  /\ T_0_new' = T_0_new_expr
  /\ T_0' = np_append(T_0, T_0_new')
  /\ pc' = "element1"
  /\ UNCHANGED <<config, globaltime, T_1, T_2,
                 Qdot1_record, Qdot2_record, QRdot1_record, QRdot2_record,
                 Cp_1, Cp_2, Q1, QR1, Q2, QR2, T_1_new, T_2_new, time_new>>

\* lines 162-163: element 1
Element1 ==
  /\ pc = "element1"
  /\ T_1_new' = T_1_new_expr
  /\ T_1' = np_append(T_1, T_1_new')
  /\ pc' = "element2"
  /\ UNCHANGED <<config, globaltime, T_0, T_2,
                 Qdot1_record, Qdot2_record, QRdot1_record, QRdot2_record,
                 Cp_1, Cp_2, Q1, QR1, Q2, QR2, T_0_new, T_2_new, time_new>>

\* lines 167-168: element 2
Element2 ==
  /\ pc = "element2"
  /\ T_2_new' = T_2_new_expr
  /\ T_2' = np_append(T_2, T_2_new')
  /\ pc' = "timekeeping"
  /\ UNCHANGED <<config, globaltime, T_0, T_1,
                 Qdot1_record, Qdot2_record, QRdot1_record, QRdot2_record,
                 Cp_1, Cp_2, Q1, QR1, Q2, QR2, T_0_new, T_1_new, time_new>>

\* lines 174-175: timekeeping
Timekeeping ==
  /\ pc = "timekeeping"
  /\ time_new' = time_new_expr
  /\ globaltime' = np_append(globaltime, time_new')
  /\ pc' = "while"
  /\ UNCHANGED <<config, T_0, T_1, T_2,
                 Qdot1_record, Qdot2_record, QRdot1_record, QRdot2_record,
                 Cp_1, Cp_2, Q1, QR1, Q2, QR2, T_0_new, T_1_new, T_2_new>>

Next ==
  \/ While
  \/ Properties
  \/ PTCLift1
  \/ RadLoad1
  \/ PTCLift2
  \/ RadLoad2
  \/ Element0
  \/ Element1
  \/ Element2
  \/ Timekeeping

Spec == Init /\ [][Next]_vars

(***************************************************************************)
(* Properties.                                                             *)
(***************************************************************************)
Running == {"properties", "ptc1", "rad1", "ptc2", "rad2",
            "element0", "element1", "element2", "timekeeping"}

\* the sequence of history that the block at pc extends
Extends ==
  [ptc1 |-> 5, rad1 |-> 7, ptc2 |-> 6, rad2 |-> 8,
   element0 |-> 2, element1 |-> 3, element2 |-> 4, timekeeping |-> 1]

\* the blocks after which sequence i of history is one entry ahead of globaltime
Ahead(i) ==
  CASE i = 1 -> {}
    [] i = 5 -> Running \ {"properties", "ptc1"}
    [] i = 7 -> Running \ {"properties", "ptc1", "rad1"}
    [] i = 6 -> {"rad2", "element0", "element1", "element2", "timekeeping"}
    [] i = 8 -> {"element0", "element1", "element2", "timekeeping"}
    [] i = 2 -> {"element1", "element2", "timekeeping"}
    [] i = 3 -> {"element2", "timekeeping"}
    [] i = 4 -> {"timekeeping"}

\* x + y and x * y of finite x and y as real numbers, not rounded
ExactSum(x, y) ==
  IF x.m = <<>> THEN y
  ELSE IF y.m = <<>> THEN x
  ELSE LET t == SumFin(x, y) IN Norm(t[1], t[2], t[3])

ExactProduct(x, y) == Norm((x.s + y.s) % 2, LMul(x.m, y.m), x.e + y.e)

\* area * emissivity * sigma * (hot^4 - cold^4), the radiative power of a link
radiativePower(hot, cold, area, emissivity) ==
  FMul(FMul(FMul(area, emissivity), stefboltz), FSub(FPow4(hot), FPow4(cold)))

\* the energy balance of one step from the temperatures t0, t1, t2 before it
RefT1(t0, t1, t2) ==
  LET Q1r  == FMul(Q_PTC1_interp_func(capmap, t1, t2), timestep)
      QR1r == FMul(radiativePower(t0, t1, A_1, eps1), timestep)
      QR2r == FMul(radiativePower(t1, t2, A_2, eps2), timestep)
  IN  FAdd(t1, FDiv(FSub(FAdd(FNeg(Q1r), QR1r), QR2r), FMul(cp(t1), m_1)))

RefT2(t0, t1, t2) ==
  LET Q2r  == FMul(Q_PTC2_interp_func(capmap, t1, t2), timestep)
      QR1r == FMul(radiativePower(t0, t1, A_1, eps1), timestep)
  IN  FAdd(t2, FDiv(FAdd(FNeg(Q2r), QR1r), FMul(cp(t2), m_2)))

\* C1, as stated: in every state, the middle of a step included, the timestamps
\* and the seven tracked sequences all have the same length.
C1_SameLengthAlways ==
  \A i \in 1..8 : Len(history[i]) = Len(globaltime)

\* C1, amended: whenever the loop condition is evaluated and when the run is Done
\* the eight sequences have the same length; inside a step they are extended one
\* at a time, in the order Qdot1, QRdot1, Qdot2, QRdot2, T0, T1, T2, timestamps,
\* so a sequence is level with the timestamps or one entry ahead of them.
C1_SameLengthBetweenSteps ==
  \A i \in 1..8 :
    Len(history[i]) = Len(globaltime) + (IF pc \in Ahead(i) THEN 1 ELSE 0)

C1_Witness ==
  /\ pc = "while"
  /\ Len(globaltime) >= 3
  /\ \A i \in 1..8 : Len(history[i]) = Len(globaltime)

\* C2: with a time step > 0 the timestamps start at 0, consecutive timestamps
\* differ by exactly the time step, and at Done the last timestamp k * timestep is
\* the smallest multiple of the time step that is >= the end time.
C2_TimeAxis ==
  FLt(Zero, timestep) =>
    /\ globaltime[1] = Zero
    /\ \A i \in 1..(Len(globaltime) - 1) :
         globaltime[i + 1] = ExactSum(globaltime[i], timestep)
    /\ pc = "Done" =>
         /\ FLe(endtime, Last(globaltime))
         /\ \/ Len(globaltime) = 1
            \/ FLt(ExactProduct(FromInt(Len(globaltime) - 2), timestep), endtime)

\* C3: the solver is Running or Done; Done is entered exactly when the last
\* timestamp is >= the end time; nothing is appended once the last timestamp is
\* >= the end time; and every run reaches Done: each step brings the last
\* timestamp nearer the end time (a step that does not leaves the loop condition
\* as it found it, and the loop never ends).
C3_RunningThenDone ==
  [][ /\ pc' \in Running \cup {"while", "Done"}
      /\ pc' = "Done" <=> (pc = "while" /\ FLe(endtime, Last(globaltime)))
      /\ history' # history => FLt(Last(globaltime), endtime)
      /\ pc = "timekeeping" => FLt(Last(globaltime), Last(globaltime')) ]_vars

\* C4: a configuration with end time <= 0 or time step <= 0 is rejected before
\* the loop: the run never enters the loop body with it and never completes.
C4_BadConfigRejected ==
  (FLe(endtime, Zero) \/ FLe(timestep, Zero)) => pc \notin Running \cup {"Done"}

\* C5: a run whose initial stage-1 or stage-2 temperature is <= 0 K fails before
\* any step: no sequence grows past its initial entry and no non-finite value
\* is appended.
C5_NonPositiveTemperatureRejected ==
  (FLe(T_1[1], Zero) \/ FLe(T_2[1], Zero)) =>
    \A i \in 1..8 :
      /\ Len(history[i]) = 1
      /\ \A j \in 1..Len(history[i]) : IsFinite(history[i][j])

\* C6: every entry of T_0 is the initial reservoir temperature, whatever the
\* stage temperatures and the heat flows are.
C6_ReservoirInvariant ==
  \A i \in 1..Len(T_0) : T_0[i] = T_0[1]

C6_Witness ==
  /\ Len(T_0) >= 3
  /\ IsFinite(Last(T_1)) /\ Last(T_1) # T_1[1]
  /\ IsFinite(Last(T_2)) /\ Last(T_2) # T_2[1]

\* the configuration of the concrete scenario: 300 K everywhere, a capacity map
\* of 0 W, a time step of 0.1 s and an end time of 10 s
ScenarioEnd == FromInt(10)

ScenarioStep == Dec(1, 1)

ScenarioFloor == Dec(2999, 1)

Scenario ==
  /\ endtime = ScenarioEnd /\ timestep = ScenarioStep /\ capmap = "zero"
  /\ T_0[1] = K300 /\ T_1[1] = K300 /\ T_2[1] = K300

NonIncreasing(a) == \A i \in 1..(Len(a) - 1) : FLe(a[i + 1], a[i])

\* C7, as stated: in the scenario both stage temperatures decrease over the run,
\* each ending below its 300 K start, and stay above 299.9 K.
C7_ScenarioCools ==
  Scenario =>
    /\ NonIncreasing(T_1) /\ NonIncreasing(T_2)
    /\ \A i \in 1..Len(T_1) : FLt(ScenarioFloor, T_1[i])
    /\ \A i \in 1..Len(T_2) : FLt(ScenarioFloor, T_2[i])
    /\ pc = "Done" => FLt(Last(T_1), K300) /\ FLt(Last(T_2), K300)

\* C7, amended: in the scenario all three nodes are at 300 K, so both radiative
\* powers and both lifts are 0 W and every entry of T_1 and T_2 is exactly 300 K:
\* the stage temperatures never rise and stay above 299.9 K, and do not fall.
C7_ScenarioStaysAt300 ==
  Scenario =>
    /\ \A i \in 1..Len(T_1) : T_1[i] = K300
    /\ \A i \in 1..Len(T_2) : T_2[i] = K300
    /\ \A i \in 1..Len(QRdot1_record) : QRdot1_record[i] = Zero
    /\ \A i \in 1..Len(QRdot2_record) : QRdot2_record[i] = Zero

C7_Witness ==
  /\ Scenario /\ pc = "Done"
  /\ Len(T_1) > 100 /\ Len(T_2) > 100
  /\ FLe(ScenarioEnd, Last(globaltime))

\* C8: a block of the loop extends one sequence by one entry at its end and
\* leaves every entry recorded before, of every sequence, as it was; a step runs
\* each block once, so it extends every sequence by exactly one entry.
C8_AppendOnly ==
  [][ \A i \in 1..8 :
        IF pc \in DOMAIN Extends /\ Extends[pc] = i
        THEN /\ Len(history'[i]) = Len(history[i]) + 1
             /\ SubSeq(history'[i], 1, Len(history[i])) = history[i]
        ELSE history'[i] = history[i] ]_vars

C8_Witness ==
  /\ pc = "Done"
  /\ Len(T_1) >= 5
  /\ T_1[2] # T_1[1] /\ T_1[3] # T_1[2]
  /\ \A i \in 1..8 : Len(history[i]) = Len(T_1)

C10_HeatFlowLag ==
  /\ Qdot1_record[1] = Zero /\ Qdot2_record[1] = Zero
  /\ QRdot1_record[1] = Zero /\ QRdot2_record[1] = Zero
  /\ pc \in {"while", "Done"} =>
       \A i \in 2..Len(globaltime) :
         /\ Qdot1_record[i] = Q_PTC1_interp_func(capmap, T_1[i - 1], T_2[i - 1])
         /\ Qdot2_record[i] = Q_PTC2_interp_func(capmap, T_1[i - 1], T_2[i - 1])
         /\ QRdot1_record[i] = radiativePower(T_0[i - 1], T_1[i - 1], A_1, eps1)
         /\ QRdot2_record[i] = radiativePower(T_1[i - 1], T_2[i - 1], A_2, eps2)

\* at some index the records differ from the rates of the temperatures at that
\* index, and the records at index 0 differ from the rates of the initial
\* temperatures
C10_Witness ==
  /\ pc = "while"
  /\ Qdot1_record[1] # Q_PTC1_interp_func(capmap, T_1[1], T_2[1])
  /\ \E i \in 2..Len(T_1) :
       /\ IsFinite(T_1[i]) /\ IsFinite(T_2[i])
       /\ Qdot1_record[i] # Q_PTC1_interp_func(capmap, T_1[i], T_2[i])
       /\ Qdot2_record[i] # Q_PTC2_interp_func(capmap, T_1[i], T_2[i])
       /\ QRdot1_record[i] # radiativePower(T_0[i], T_1[i], A_1, eps1)
       /\ QRdot2_record[i] # radiativePower(T_1[i], T_2[i], A_2, eps2)

====
